---- MODULE Spec2Model ----
(***************************************************************************)
(* finite-float: Float32 / Float64, wrappers over the IEEE-754 binary      *)
(* primitives f32 / f64 that never hold NaN, an infinity, a subnormal or   *)
(* negative zero (src/src/lib.rs).                                          *)
(*                                                                         *)
(* A primitive is modelled by its bit pattern (sign | exponent | mantissa) *)
(* in a binary interchange format with ExpBits exponent bits and MantBits  *)
(* mantissa bits; arithmetic is IEEE-754 round-to-nearest-even on those    *)
(* patterns.  The two instantiations of impl_finite_float! are the two     *)
(* values of the variable w.                                               *)
(***************************************************************************)
EXTENDS Integers, Sequences, FiniteSets

VARIABLES w, pc, acc, op, lhs, rhs, text, prim, out

vars == <<w, pc, acc, op, lhs, rhs, text, prim, out>>

(***************************************************************************)
(* Bounds: the width of the exponent and mantissa fields of the two        *)
(* primitive formats, and the length of the texts given to the parser.     *)
(***************************************************************************)
ExpBits32 == 3
MantBits32 == 1
ExpBits64 == 3
MantBits64 == 2
MaxLen == 5

Widths == {"Float32", "Float64"}

ExpBits(t) == IF t = "Float32" THEN ExpBits32 ELSE ExpBits64

MantBits(t) == IF t = "Float32" THEN MantBits32 ELSE MantBits64

(***************************************************************************)
(* The primitive type $base: layout of a bit pattern.                      *)
(***************************************************************************)
Bias(t) == 2^(ExpBits(t) - 1) - 1

ExpAllOnes(t) == 2^ExpBits(t) - 1

Pack(t, s, e, m) == (s * 2^ExpBits(t) + e) * 2^MantBits(t) + m

SignOf(t, x) == x \div 2^(ExpBits(t) + MantBits(t))

ExpOf(t, x) == (x \div 2^MantBits(t)) % 2^ExpBits(t)

MantOf(t, x) == x % 2^MantBits(t)

Bits(t) == 0 .. (2^(1 + ExpBits(t) + MantBits(t)) - 1)

\* f32::to_bits / f64::to_bits: the bit pattern of a primitive.
to_bits(t, x) == Pack(t, SignOf(t, x), ExpOf(t, x), MantOf(t, x))

is_nan(t, x) == ExpOf(t, x) = ExpAllOnes(t) /\ MantOf(t, x) # 0

is_sign_positive(t, x) == SignOf(t, x) = 0

\* f32::classify / f64::classify.
classify(t, x) ==
    IF ExpOf(t, x) = ExpAllOnes(t)
    THEN (IF MantOf(t, x) = 0 THEN "Infinite" ELSE "Nan")
    ELSE IF ExpOf(t, x) = 0
         THEN (IF MantOf(t, x) = 0 THEN "Zero" ELSE "Subnormal")
         ELSE "Normal"

\* Constants of the primitive type.
PRIM_ZERO(t) == Pack(t, 0, 0, 0)

PRIM_NEG_ZERO(t) == Pack(t, 1, 0, 0)

PRIM_INFINITY(t) == Pack(t, 0, ExpAllOnes(t), 0)

PRIM_NEG_INFINITY(t) == Pack(t, 1, ExpAllOnes(t), 0)

PRIM_NAN(t) == Pack(t, 0, ExpAllOnes(t), 2^(MantBits(t) - 1))

PRIM_MAX(t) == Pack(t, 0, ExpAllOnes(t) - 1, 2^MantBits(t) - 1)

PRIM_MIN(t) == Pack(t, 1, ExpAllOnes(t) - 1, 2^MantBits(t) - 1)

PRIM_MIN_POSITIVE(t) == Pack(t, 0, 1, 0)

\* 2^-MantBits, the gap between 1.0 and the next larger number.
PRIM_EPSILON(t) == Pack(t, 0, Bias(t) - MantBits(t), 0)

(***************************************************************************)
(* The value of a pattern, in units of the smallest subnormal: the         *)
(* significand Sig times 2^Shift, negated when the sign bit is set.  An    *)
(* infinity gets the magnitude of the binade above the largest finite one. *)
(***************************************************************************)
Sig(t, x) == IF ExpOf(t, x) = 0 THEN MantOf(t, x) ELSE 2^MantBits(t) + MantOf(t, x)

Shift(t, x) == IF ExpOf(t, x) = 0 THEN 0 ELSE ExpOf(t, x) - 1

Magnitude(t, x) == Sig(t, x) * 2^Shift(t, x)

Units(t, x) == IF SignOf(t, x) = 1 THEN 0 - Magnitude(t, x) ELSE Magnitude(t, x)

\* One unit is 2^-UnitExp.
UnitExp(t) == Bias(t) - 1 + MantBits(t)

RECURSIVE BitLen(_)
BitLen(p) == IF p = 0 THEN 0 ELSE 1 + BitLen(p \div 2)

Max(a, b) == IF a >= b THEN a ELSE b

(***************************************************************************)
(* Round-to-nearest, ties-to-even, of the exact value p * 2^k units        *)
(* (p >= 1) with sign bit s, overflowing to an infinity.                   *)
(***************************************************************************)
Encode(t, s, q, e) ==
    IF q = 2^(MantBits(t) + 1)
    THEN Pack(t, s, e + 1, 0)
    ELSE IF q >= 2^MantBits(t)
         THEN Pack(t, s, e, q - 2^MantBits(t))
         ELSE Pack(t, s, 0, q)

RoundScaled(t, s, p, k) ==
    LET e  == Max(1, BitLen(p) + k - MantBits(t))
        sh == (e - 1) - k
    IN  IF e >= ExpAllOnes(t)
        THEN Pack(t, s, ExpAllOnes(t), 0)
        ELSE IF sh <= 0
             THEN Encode(t, s, p * 2^(0 - sh), e)
             ELSE IF sh > BitLen(p) + 1
                  THEN Pack(t, s, 0, 0)
                  ELSE LET q    == p \div 2^sh
                           rem  == p % 2^sh
                           half == 2^(sh - 1)
                           up   == rem > half \/ (rem = half /\ q % 2 = 1)
                       IN  Encode(t, s, IF up THEN q + 1 ELSE q, e)

\* Unary minus of the primitive type: flips the sign bit.
prim_neg(t, x) == Pack(t, 1 - SignOf(t, x), ExpOf(t, x), MantOf(t, x))

\* + of the primitive type.
prim_add(t, a, b) ==
    IF is_nan(t, a) \/ is_nan(t, b) THEN PRIM_NAN(t)
    ELSE IF classify(t, a) = "Infinite"
         THEN (IF classify(t, b) = "Infinite" /\ SignOf(t, a) # SignOf(t, b)
               THEN PRIM_NAN(t) ELSE a)
    ELSE IF classify(t, b) = "Infinite" THEN b
    ELSE LET sum == Units(t, a) + Units(t, b)
         IN  IF sum = 0
             THEN (IF SignOf(t, a) = 1 /\ SignOf(t, b) = 1
                   THEN PRIM_NEG_ZERO(t) ELSE PRIM_ZERO(t))
             ELSE IF sum < 0 THEN RoundScaled(t, 1, 0 - sum, 0)
                             ELSE RoundScaled(t, 0, sum, 0)

\* - of the primitive type.
prim_sub(t, a, b) ==
    IF is_nan(t, a) \/ is_nan(t, b) THEN PRIM_NAN(t) ELSE prim_add(t, a, prim_neg(t, b))

\* * of the primitive type.
prim_mul(t, a, b) ==
    LET s == (SignOf(t, a) + SignOf(t, b)) % 2
    IN  IF is_nan(t, a) \/ is_nan(t, b) THEN PRIM_NAN(t)
        ELSE IF classify(t, a) = "Infinite" \/ classify(t, b) = "Infinite"
             THEN (IF classify(t, a) = "Zero" \/ classify(t, b) = "Zero"
                   THEN PRIM_NAN(t) ELSE Pack(t, s, ExpAllOnes(t), 0))
        ELSE IF classify(t, a) = "Zero" \/ classify(t, b) = "Zero"
             THEN Pack(t, s, 0, 0)
        ELSE RoundScaled(t, s, Sig(t, a) * Sig(t, b),
                         Shift(t, a) + Shift(t, b) - UnitExp(t))

\* PartialOrd of the primitive type: no order with a NaN, -0.0 equals 0.0.
prim_partial_cmp(t, a, b) ==
    IF is_nan(t, a) \/ is_nan(t, b) THEN "None"
    ELSE IF Units(t, a) < Units(t, b) THEN "Less"
    ELSE IF Units(t, a) > Units(t, b) THEN "Greater"
    ELSE "Equal"

prim_gt(t, a, b) == prim_partial_cmp(t, a, b) = "Greater"

prim_lt(t, a, b) == prim_partial_cmp(t, a, b) = "Less"

prim_eq(t, a, b) == prim_partial_cmp(t, a, b) = "Equal"

(***************************************************************************)
(* Results.  A FiniteFloat is represented by its stored primitive, self.0. *)
(* A result is a record: tag says what was returned ("Value" a FiniteFloat,*)
(* "Some"/"None" an Option, "Ok"/"Err" a Result, "Ordering", "Bool",       *)
(* "Hash", or "Panic" when the call panicked), val the FiniteFloat or bits *)
(* it carries and info the ordering, truth value or error kind.            *)
(***************************************************************************)
Result(g, v, i) == [tag |-> g, val |-> v, info |-> i]

Value(v) == Result("Value", v, "-")

Panic == Result("Panic", 0, "-")

\* A returned value wrapped by the caller (Some(..), Ok(..)); a panic unwinds.
Wrap(g, r) == IF r.tag = "Panic" THEN r ELSE Result(g, r.val, r.info)

\* The associated constants of $t.
ZERO(t) == PRIM_ZERO(t)

EPSILON(t) == PRIM_EPSILON(t)

MIN(t) == PRIM_MIN(t)

MAX(t) == PRIM_MAX(t)

MIN_POSITIVE(t) == PRIM_MIN_POSITIVE(t)

MAX_NEGATIVE(t) == prim_neg(t, PRIM_MIN_POSITIVE(t))

Constants(t) == {ZERO(t), EPSILON(t), MIN(t), MAX(t), MIN_POSITIVE(t), MAX_NEGATIVE(t)}

get(x) == x

\* Mutants of from_primitive_with_underflow_sign: a zero keeps its sign bit;
\* a subnormal is stored as it is; an infinity is stored as it is; the two
\* infinities are swapped.
from_primitive_keeping_zero(t, val, underflow_sign) ==
    CASE classify(t, val) = "Nan" -> Panic
      [] classify(t, val) = "Infinite" ->
            IF prim_gt(t, val, PRIM_ZERO(t)) THEN Value(MAX(t)) ELSE Value(MIN(t))
      [] classify(t, val) = "Zero" ->
            (CASE underflow_sign = "Less" -> Value(MAX_NEGATIVE(t))
               [] underflow_sign = "Equal" -> Value(val)
               [] underflow_sign = "Greater" -> Value(MIN_POSITIVE(t))
               [] OTHER -> Panic)
      [] classify(t, val) = "Subnormal" ->
            IF prim_gt(t, val, PRIM_ZERO(t)) THEN Value(MIN_POSITIVE(t))
                                             ELSE Value(MAX_NEGATIVE(t))
      [] classify(t, val) = "Normal" -> Value(val)

from_primitive_keeping_subnormal(t, val, underflow_sign) ==
    CASE classify(t, val) = "Nan" -> Panic
      [] classify(t, val) = "Infinite" ->
            IF prim_gt(t, val, PRIM_ZERO(t)) THEN Value(MAX(t)) ELSE Value(MIN(t))
      [] classify(t, val) = "Zero" ->
            (CASE underflow_sign = "Less" -> Value(MAX_NEGATIVE(t))
               [] underflow_sign = "Equal" -> Value(PRIM_ZERO(t))
               [] underflow_sign = "Greater" -> Value(MIN_POSITIVE(t))
               [] OTHER -> Panic)
      [] classify(t, val) \in {"Subnormal", "Normal"} -> Value(val)

from_primitive_keeping_infinite(t, val, underflow_sign) ==
    CASE classify(t, val) = "Nan" -> Panic
      [] classify(t, val) = "Zero" ->
            (CASE underflow_sign = "Less" -> Value(MAX_NEGATIVE(t))
               [] underflow_sign = "Equal" -> Value(PRIM_ZERO(t))
               [] underflow_sign = "Greater" -> Value(MIN_POSITIVE(t))
               [] OTHER -> Panic)
      [] classify(t, val) = "Subnormal" ->
            IF prim_gt(t, val, PRIM_ZERO(t)) THEN Value(MIN_POSITIVE(t))
                                             ELSE Value(MAX_NEGATIVE(t))
      [] classify(t, val) \in {"Infinite", "Normal"} -> Value(val)

from_primitive_swapping_infinite(t, val, underflow_sign) ==
    CASE classify(t, val) = "Nan" -> Panic
      [] classify(t, val) = "Infinite" ->
            IF prim_gt(t, val, PRIM_ZERO(t)) THEN Value(MIN(t)) ELSE Value(MAX(t))
      [] classify(t, val) = "Zero" ->
            (CASE underflow_sign = "Less" -> Value(MAX_NEGATIVE(t))
               [] underflow_sign = "Equal" -> Value(PRIM_ZERO(t))
               [] underflow_sign = "Greater" -> Value(MIN_POSITIVE(t))
               [] OTHER -> Panic)
      [] classify(t, val) = "Subnormal" ->
            IF prim_gt(t, val, PRIM_ZERO(t)) THEN Value(MIN_POSITIVE(t))
                                             ELSE Value(MAX_NEGATIVE(t))
      [] classify(t, val) = "Normal" -> Value(val)

\* Mutant of from_primitive_with_underflow_sign: a subnormal is flushed to
\* zero.
from_primitive_flushing_subnormal(t, val, underflow_sign) ==
    CASE classify(t, val) = "Nan" -> Panic
      [] classify(t, val) = "Infinite" ->
            IF prim_gt(t, val, PRIM_ZERO(t)) THEN Value(MAX(t)) ELSE Value(MIN(t))
      [] classify(t, val) = "Zero" ->
            (CASE underflow_sign = "Less" -> Value(MAX_NEGATIVE(t))
               [] underflow_sign = "Equal" -> Value(PRIM_ZERO(t))
               [] underflow_sign = "Greater" -> Value(MIN_POSITIVE(t))
               [] OTHER -> Panic)
      [] classify(t, val) = "Subnormal" -> Value(PRIM_ZERO(t))
      [] classify(t, val) = "Normal" -> Value(val)

\* underflow_sign is the value the closure returns ("Panic" if it panics);
\* it is read in the Zero arm only.
from_primitive_with_underflow_sign(t, val, underflow_sign) ==
    CASE classify(t, val) = "Nan" -> Panic
      [] classify(t, val) = "Infinite" ->
            IF prim_gt(t, val, PRIM_ZERO(t)) THEN Value(MAX(t)) ELSE Value(MIN(t))
      [] classify(t, val) = "Zero" ->
            (CASE underflow_sign = "Less" -> Value(MAX_NEGATIVE(t))
               [] underflow_sign = "Equal" -> Value(PRIM_ZERO(t))
               [] underflow_sign = "Greater" -> Value(MIN_POSITIVE(t))
               [] OTHER -> Panic)
      [] classify(t, val) = "Subnormal" ->
            IF prim_gt(t, val, PRIM_ZERO(t)) THEN Value(MIN_POSITIVE(t))
                                             ELSE Value(MAX_NEGATIVE(t))
      [] classify(t, val) = "Normal" -> Value(val)

\* Mutant of from_primitive: the closure answers Greater.
from_primitive_answering_greater(t, val) ==
    from_primitive_with_underflow_sign(t, val, "Greater")

from_primitive(t, val) == from_primitive_with_underflow_sign(t, val, "Equal")

\* Mutant of new: every non-finite val is refused.
new_refusing_infinite(t, val) ==
    IF ExpOf(t, val) = ExpAllOnes(t) THEN Result("None", 0, "-")
    ELSE Wrap("Some", from_primitive(t, val))

new(t, val) ==
    IF is_nan(t, val) THEN Result("None", 0, "-") ELSE Wrap("Some", from_primitive(t, val))

\* #[derive(PartialEq, PartialOrd)] on the one-field struct.
partial_cmp(t, a, b) == prim_partial_cmp(t, get(a), get(b))

eq(t, a, b) == prim_eq(t, get(a), get(b))

lt(t, a, b) == partial_cmp(t, a, b) = "Less"

gt(t, a, b) == partial_cmp(t, a, b) = "Greater"

\* Ord::cmp: self.partial_cmp(other).unwrap()
cmp(t, a, b) == IF partial_cmp(t, a, b) = "None" THEN "Panic" ELSE partial_cmp(t, a, b)

sign(t, x) == cmp(t, x, ZERO(t))

\* Hash::hash: the bits written to the hasher.
hash(t, x) == to_bits(t, get(x))

\* TryFrom::try_from: $t::new(val).ok_or(NanError)
try_from(t, val) ==
    IF new(t, val).tag = "None" THEN Result("Err", 0, "NanError") ELSE Wrap("Ok", new(t, val))

reverse(o) == CASE o = "Less" -> "Greater" [] o = "Greater" -> "Less" [] OTHER -> o

\* Mutant of multiply_signs: a negative lhs does not reverse rhs.
multiply_signs_without_reverse(l, r) ==
    CASE l = "Less" -> r
      [] l = "Equal" -> "Equal"
      [] l = "Greater" -> r

multiply_signs(l, r) ==
    CASE l = "Less" -> reverse(r)
      [] l = "Equal" -> "Equal"
      [] l = "Greater" -> r

\* Mutant of neg: the negated primitive is stored as it is.
neg_unclassified(t, x) == Value(prim_neg(t, get(x)))

\* Mutant of neg: the primitive is classified without being negated.
neg_keeping_sign(t, x) == from_primitive(t, get(x))

neg(t, x) == from_primitive(t, prim_neg(t, get(x)))

\* Neg for &$t: (*self).neg() on the copy behind the reference.
neg_ref(t, x) == neg(t, x)

add(t, a, b) == from_primitive(t, prim_add(t, get(a), get(b)))

sub(t, a, b) == from_primitive(t, prim_sub(t, get(a), get(b)))

\* The closure || multiply_signs(self.sign(), rhs.sign()).
mul_underflow_sign(t, a, b) ==
    IF sign(t, a) = "Panic" \/ sign(t, b) = "Panic" THEN "Panic"
    ELSE multiply_signs(sign(t, a), sign(t, b))

mul(t, a, b) ==
    from_primitive_with_underflow_sign(t, prim_mul(t, get(a), get(b)),
                                       mul_underflow_sign(t, a, b))

(***************************************************************************)
(* Texts are sequences of one-character strings.                           *)
(***************************************************************************)
Digits == {"0", "1", "2", "3", "4", "5", "6", "7", "8", "9"}

DigitVal(c) ==
    CASE c = "0" -> 0 [] c = "1" -> 1 [] c = "2" -> 2 [] c = "3" -> 3 [] c = "4" -> 4
      [] c = "5" -> 5 [] c = "6" -> 6 [] c = "7" -> 7 [] c = "8" -> 8 [] c = "9" -> 9

\* Returns the sign of a floating point number that has rounded to zero:
\* the loop of parse_sign_of_tiny_float from byte i on, with its running sign.
RECURSIVE ScanSign(_, _, _)
ScanSign(s, i, sgn) ==
    IF i > Len(s) THEN "Equal"
    ELSE IF s[i] = "-" THEN ScanSign(s, i + 1, "Less")
    ELSE IF s[i] \in {"+", "0", "."} THEN ScanSign(s, i + 1, sgn)
    ELSE IF s[i] \in Digits \ {"0"} THEN sgn
    ELSE "Equal"

\* Mutant of parse_sign_of_tiny_float: the scan runs over the exponent too.
parse_sign_of_whole_text(s) ==
    IF \E i \in 1..Len(s) : s[i] \in Digits \ {"0"}
    THEN (IF \E i \in 1..Len(s) : s[i] = "-" THEN "Less" ELSE "Greater")
    ELSE "Equal"

parse_sign_of_tiny_float(s) == ScanSign(s, 1, "Greater")

(***************************************************************************)
(* $base::from_str, the parser of the primitive type:                      *)
(*   Float  ::= Sign? ( 'inf' | 'infinity' | 'nan' | Number )              *)
(*   Number ::= ( Digit+ | Digit+ '.' Digit* | Digit* '.' Digit+ ) Exp?    *)
(*   Exp    ::= 'e' Sign? Digit+                                           *)
(* letters in any case; a Number is rounded to the nearest primitive, ties *)
(* to even, overflowing to an infinity and underflowing to a signed zero.  *)
(***************************************************************************)
RECURSIVE DigitRun(_, _)
DigitRun(s, i) == IF i <= Len(s) /\ s[i] \in Digits THEN 1 + DigitRun(s, i + 1) ELSE 0

RECURSIVE Number(_, _, _, _)
Number(s, i, n, a) == IF n = 0 THEN a ELSE Number(s, i + 1, n - 1, a * 10 + DigitVal(s[i]))

\* 10^n, capped at 10^9: above every numerator DecimalToFloat divides by it.
RECURSIVE Pow10Cap(_)
Pow10Cap(n) == IF n = 0 THEN 1 ELSE IF n >= 9 THEN 1000000000 ELSE 10 * Pow10Cap(n - 1)

\* The primitive nearest to d * 10^x, with sign bit sg.
DecimalToFloat(t, sg, d, x) ==
    IF d = 0 THEN Pack(t, sg, 0, 0)
    ELSE IF x >= 0
         THEN (IF Pow10Cap(x) > (2^(ExpAllOnes(t) - Bias(t)) - 1) \div d
               THEN Pack(t, sg, ExpAllOnes(t), 0)
               ELSE RoundScaled(t, sg, d * Pow10Cap(x), UnitExp(t)))
         ELSE LET q  == Pow10Cap(0 - x)
                  n  == d * 2^UnitExp(t)
                  r  == n % q
                  hb == IF 2 * r >= q THEN 2 ELSE 0
                  st == IF r # 0 /\ 2 * r # q THEN 1 ELSE 0
              IN  RoundScaled(t, sg, 4 * (n \div q) + hb + st, 0 - 2)

ParseFail == [ok |-> FALSE, mant |-> 0, exp10 |-> 0]

parse_number(s) ==
    LET ni     == DigitRun(s, 1)
        hasDot == ni + 1 <= Len(s) /\ s[ni + 1] = "."
        nf     == IF hasDot THEN DigitRun(s, ni + 2) ELSE 0
        j      == IF hasDot THEN ni + 2 + nf ELSE ni + 1
        d      == Number(s, ni + 2, nf, Number(s, 1, ni, 0))
        eNeg   == j + 1 <= Len(s) /\ s[j + 1] = "-"
        k      == IF j + 1 <= Len(s) /\ s[j + 1] \in {"+", "-"} THEN j + 2 ELSE j + 1
        ne     == DigitRun(s, k)
        e      == Number(s, k, ne, 0)
    IN  IF ni + nf = 0 THEN ParseFail
        ELSE IF j > Len(s) THEN [ok |-> TRUE, mant |-> d, exp10 |-> 0 - nf]
        ELSE IF s[j] \notin {"e", "E"} \/ ne = 0 \/ k + ne <= Len(s) THEN ParseFail
        ELSE [ok |-> TRUE, mant |-> d, exp10 |-> (IF eNeg THEN 0 - e ELSE e) - nf]

to_ascii_lowercase(c) ==
    CASE c = "A" -> "a" [] c = "F" -> "f" [] c = "I" -> "i" [] c = "N" -> "n"
      [] c = "T" -> "t" [] c = "Y" -> "y" [] OTHER -> c

Lower(s) == [i \in 1..Len(s) |-> to_ascii_lowercase(s[i])]

parse_inf_nan(t, s, sg) ==
    IF Lower(s) = <<"n", "a", "n">>
    THEN [ok |-> TRUE, val |-> Pack(t, sg, ExpAllOnes(t), 2^(MantBits(t) - 1))]
    ELSE IF Lower(s) \in {<<"i", "n", "f">>, <<"i", "n", "f", "i", "n", "i", "t", "y">>}
         THEN [ok |-> TRUE, val |-> Pack(t, sg, ExpAllOnes(t), 0)]
         ELSE [ok |-> FALSE, val |-> 0]

prim_from_str(t, s) ==
    LET signed == Len(s) > 0 /\ s[1] \in {"+", "-"}
        sg     == IF Len(s) > 0 /\ s[1] = "-" THEN 1 ELSE 0
        body   == IF signed THEN Tail(s) ELSE s
        num    == parse_number(body)
    IN  IF Len(body) = 0 THEN [ok |-> FALSE, val |-> 0]
        ELSE IF num.ok THEN [ok |-> TRUE, val |-> DecimalToFloat(t, sg, num.mant, num.exp10)]
        ELSE parse_inf_nan(t, body, sg)

\* The text of line 231, which $base::from_str must reject for unwrap_err.
NaNValueIsInvalid ==
    <<"N", "a", "N", " ", "v", "a", "l", "u", "e", " ", "i", "s", " ",
      "i", "n", "v", "a", "l", "i", "d">>

\* Mutant of from_str: no is_nan test before the classification.
from_str_without_nan_test(t, s) ==
    LET r == prim_from_str(t, s)
    IN  IF ~r.ok THEN Result("Err", 0, "ParseFloatError")
        ELSE Wrap("Ok", from_primitive_with_underflow_sign(
                            t, r.val, parse_sign_of_tiny_float(s)))

from_str(t, s) ==
    LET r == prim_from_str(t, s)
    IN  IF ~r.ok THEN Result("Err", 0, "ParseFloatError")
        ELSE IF is_nan(t, r.val)
             THEN (IF prim_from_str(t, NaNValueIsInvalid).ok THEN Panic
                   ELSE Result("Err", 0, "ParseFloatError"))
             ELSE Wrap("Ok", from_primitive_with_underflow_sign(
                                 t, r.val, parse_sign_of_tiny_float(s)))

(***************************************************************************)
(* The inputs.                                                             *)
(***************************************************************************)
NonNan(t) == {x \in Bits(t) : ~is_nan(t, x)}

\* The values of the type that new() makes, the right-hand operands.
Values == [t \in Widths |-> {new(t, x).val : x \in NonNan(t)}]

Alphabet == {"-", "+", "0", "1", ".", "e"}

Texts == UNION {[1..n -> Alphabet] : n \in 0..MaxLen}

\* The texts of test_parse, with exponents scaled to the modelled formats.
Literals ==
    { <<"f", "o", "o">>, <<"N", "a", "N">>, <<"n", "a", "n">>, <<"-", "n", "a", "n">>,
      <<"i", "n", "f">>, <<"-", "i", "n", "f">>, <<"+", "i", "n", "f">>,
      <<"i", "n", "f", "i", "n", "i", "t", "y">>, <<"I", "N", "F">>,
      <<"3", ".", "5">>, <<"-", "2", ".", "5">>, <<"1", "E", "0">>,
      <<"1", "e", "1", "0", "0", "0">>, <<"-", "1", "e", "1", "0", "0", "0">>,
      <<"0", ".", "0">>, <<"-", "0", ".", "0">>,
      <<"0", ".", "0", "e", "1", "0", "0", "0", "0">>,
      <<"-", "0", ".", "0", "e", "-", "1", "0", "0", "0", "0">>,
      <<"1", "e", "-", "1">>, <<"-", "1", "e", "-", "1">>,
      <<"1", ".", "0", "0", "e", "-", "1", "0", "0", "0", "0">>,
      <<"-", "0", ".", "0", "0", "0", "0", "0", "9", "0", "e", "-", "1", "0", "0", "0", "0">>,
      <<>>, <<"-">>, <<".">>, <<"1", "e">>, <<"1", ".", "5", "x">> }

(***************************************************************************)
(* The state: a program holding one value acc of the type $t (w says which *)
(* instantiation), and the record of the call it has just made: op, the    *)
(* operands lhs (self) and rhs (the other operand, or the raw primitive),  *)
(* the text parsed, the primitive intermediate prim and the result out.    *)
(* A call that returns a value of the type assigns it to acc.              *)
(***************************************************************************)
Prim(x) == [ok |-> TRUE, val |-> x]

NoPrim == [ok |-> FALSE, val |-> 0]

NoOut == Result("Unit", 0, "-")

TypeOK ==
    /\ w \in Widths
    /\ pc \in {"idle", "done"}
    /\ acc \in Bits(w)
    /\ lhs \in Bits(w)
    /\ rhs \in Bits(w)
    /\ prim.val \in Bits(w)

Init ==
    /\ w \in Widths
    /\ pc = "idle"
    /\ acc \in Constants(w)
    /\ op = "none"
    /\ lhs = 0
    /\ rhs = 0
    /\ text = <<>>
    /\ prim = NoPrim
    /\ out = NoOut

\* The call op(a, b) on text s computed p and returned r.
Call(o, a, b, s, p, r) ==
    /\ pc = "idle"
    /\ pc' = "done"
    /\ op' = o
    /\ lhs' = a
    /\ rhs' = b
    /\ text' = s
    /\ prim' = p
    /\ out' = r
    /\ acc' = IF r.tag \in {"Value", "Some", "Ok"} THEN r.val ELSE acc
    /\ UNCHANGED w

New(raw) == Call("new", 0, raw, <<>>, Prim(raw), new(w, raw))

TryFrom(raw) == Call("try_from", 0, raw, <<>>, Prim(raw), try_from(w, raw))

FromStr(s) == Call("from_str", 0, 0, s, prim_from_str(w, s), from_str(w, s))

Neg == Call("neg", acc, 0, <<>>, Prim(prim_neg(w, get(acc))), neg(w, acc))

NegRef == Call("neg_ref", acc, 0, <<>>, Prim(prim_neg(w, get(acc))), neg_ref(w, acc))

Add(b) == Call("add", acc, b, <<>>, Prim(prim_add(w, get(acc), get(b))), add(w, acc, b))

Sub(b) == Call("sub", acc, b, <<>>, Prim(prim_sub(w, get(acc), get(b))), sub(w, acc, b))

Mul(b) == Call("mul", acc, b, <<>>, Prim(prim_mul(w, get(acc), get(b))), mul(w, acc, b))

Cmp(b) ==
    Call("cmp", acc, b, <<>>, NoPrim,
         IF cmp(w, acc, b) = "Panic" THEN Panic ELSE Result("Ordering", 0, cmp(w, acc, b)))

Eq(b) ==
    Call("eq", acc, b, <<>>, NoPrim,
         Result("Bool", 0, IF eq(w, acc, b) THEN "true" ELSE "false"))

Hash == Call("hash", acc, 0, <<>>, NoPrim, Result("Hash", hash(w, acc), "-"))

\* The call has returned (a panic does not return); its record is dropped.
Continue ==
    /\ pc = "done"
    /\ out.tag # "Panic"
    /\ pc' = "idle"
    /\ op' = "none"
    /\ lhs' = 0
    /\ rhs' = 0
    /\ text' = <<>>
    /\ prim' = NoPrim
    /\ out' = NoOut
    /\ UNCHANGED <<w, acc>>

\* A call is made when the previous one has returned.
Next ==
    \/ pc = "idle" /\ \E raw \in Bits(w) : New(raw)
    \/ pc = "idle" /\ \E raw \in Bits(w) : TryFrom(raw)
    \/ pc = "idle" /\ \E s \in Literals : FromStr(s)
    \/ Neg
    \/ NegRef
    \/ pc = "idle" /\ \E b \in Values[w] : Add(b)
    \/ pc = "idle" /\ \E b \in Values[w] : Sub(b)
    \/ pc = "idle" /\ \E b \in Values[w] : Mul(b)
    \/ pc = "idle" /\ \E b \in Values[w] : Cmp(b)
    \/ pc = "idle" /\ \E b \in Values[w] : Eq(b)
    \/ Hash
    \/ Continue

Spec == Init /\ [][Next]_vars

\* Parsing alone: every text over Alphabet of at most MaxLen characters, and
\* the literals.
InitParse ==
    /\ w \in Widths
    /\ pc = "idle"
    /\ acc = ZERO(w)
    /\ op = "none"
    /\ lhs = 0
    /\ rhs = 0
    /\ text = <<>>
    /\ prim = NoPrim
    /\ out = NoOut

NextParse == pc = "idle" /\ \E s \in Texts \cup Literals : FromStr(s)

SpecParse == InitParse /\ [][NextParse]_vars

(***************************************************************************)
(* Properties.                                                             *)
(***************************************************************************)
IsNormal(t, x) == ExpOf(t, x) \notin {0, ExpAllOnes(t)}

IsSubnormal(t, x) == ExpOf(t, x) = 0 /\ MantOf(t, x) # 0

IsZero(t, x) == ExpOf(t, x) = 0 /\ MantOf(t, x) = 0

\* x is positive zero or a normal number.
Canonical(t, x) == x = Pack(t, 0, 0, 0) \/ IsNormal(t, x)

Returned == pc = "done" /\ out.tag \in {"Value", "Some", "Ok"}

\* C1: every value of the type the program holds or is returned, and every
\* associated constant, stores positive zero or a normal number: never NaN,
\* an infinity, a subnormal or negative zero.
C1_TypeInvariant ==
    /\ Canonical(w, get(acc))
    /\ Returned => Canonical(w, get(out.val))
    /\ op \in {"neg", "neg_ref", "add", "sub", "mul", "cmp", "eq", "hash"} => Canonical(w, get(lhs))
    /\ op \in {"add", "sub", "mul", "cmp", "eq"} => Canonical(w, get(rhs))
    /\ \A c \in Constants(w) : Canonical(w, get(c))

\* Negating ZERO computed the primitive -0.0 and returned positive zero.
C1_Witness ==
    /\ op = "neg"
    /\ lhs = ZERO(w)
    /\ prim.val = PRIM_NEG_ZERO(w)
    /\ out = Value(PRIM_ZERO(w))
    /\ acc = PRIM_ZERO(w)

\* The value new(raw) must hold, by the class of raw.
NewOf(t, raw) ==
    IF raw = PRIM_INFINITY(t) THEN MAX(t)
    ELSE IF raw = PRIM_NEG_INFINITY(t) THEN MIN(t)
    ELSE IF IsZero(t, raw) THEN Pack(t, 0, 0, 0)
    ELSE IF IsSubnormal(t, raw)
         THEN (IF SignOf(t, raw) = 0 THEN MIN_POSITIVE(t) ELSE MAX_NEGATIVE(t))
         ELSE raw

\* C2: for every non-NaN raw, new(raw) is Some(v) with v given by the class of
\* raw: +inf gives MAX, -inf MIN, either zero ZERO with a positive sign bit, a
\* subnormal MIN_POSITIVE or MAX_NEGATIVE by sign, a normal raw is unchanged.
C2_NewByClass ==
    (op = "new" /\ ~is_nan(w, rhs)) =>
        /\ out.tag = "Some"
        /\ get(out.val) = NewOf(w, rhs)
        /\ IsZero(w, rhs) => eq(w, out.val, ZERO(w)) /\ is_sign_positive(w, get(out.val))

C2_Witness ==
    /\ op = "new"
    /\ IsSubnormal(w, rhs)
    /\ SignOf(w, rhs) = 1
    /\ out = Result("Some", MAX_NEGATIVE(w), "-")

\* C3: new(raw) is None iff raw is NaN; try_from(raw) is Err(NanError) iff raw
\* is NaN and otherwise Ok of the value of new(raw); a failed construction
\* yields no value: the value held is left as it was.
C3_NanRejected ==
    [][/\ op' = "new" =>
            /\ out'.tag \in {"Some", "None"}
            /\ out'.tag = "None" <=> is_nan(w, rhs')
            /\ out'.tag = "None" => acc' = acc
       /\ op' = "try_from" =>
            /\ out'.tag \in {"Ok", "Err"}
            /\ out'.tag = "Err" <=> is_nan(w, rhs')
            /\ out'.tag = "Err" => out'.info = "NanError" /\ acc' = acc
            /\ out'.tag = "Ok" =>
                    new(w, rhs') = Result("Some", out'.val, "-") /\ acc' = out'.val]_vars

C3_Witness ==
    /\ op = "try_from"
    /\ is_nan(w, rhs)
    /\ out = Result("Err", 0, "NanError")

\* C4: no call panics: the primitive result of neg, add, sub and mul is never
\* NaN, from_str returns, and partial_cmp of two values is never None, so
\* that exactly one of a < b, a == b, a > b holds.
C4_NoPanic ==
    /\ out.tag # "Panic"
    /\ op \in {"neg", "neg_ref", "add", "sub", "mul"} => prim.ok /\ ~is_nan(w, prim.val)
    /\ op = "from_str" => out.tag \in {"Ok", "Err"}
    /\ op \in {"cmp", "eq"} =>
            /\ partial_cmp(w, lhs, rhs) # "None"
            /\ \/ lt(w, lhs, rhs) /\ ~eq(w, lhs, rhs) /\ ~gt(w, lhs, rhs)
               \/ ~lt(w, lhs, rhs) /\ eq(w, lhs, rhs) /\ ~gt(w, lhs, rhs)
               \/ ~lt(w, lhs, rhs) /\ ~eq(w, lhs, rhs) /\ gt(w, lhs, rhs)
    /\ op = "cmp" => out.tag = "Ordering" /\ out.info \in {"Less", "Equal", "Greater"}

\* MAX * MIN overflowed to -inf, not NaN, and returned.
C4_Witness ==
    /\ op = "mul"
    /\ lhs = MAX(w)
    /\ rhs = MIN(w)
    /\ prim.val = PRIM_NEG_INFINITY(w)
    /\ out.tag = "Value"

\* C5: two values that compare equal feed the same bits to the hasher.
C5_HashEq ==
    /\ (op = "eq" /\ out.info = "true") => hash(w, lhs) = hash(w, rhs)
    /\ (op = "cmp" /\ out.info = "Equal") => hash(w, lhs) = hash(w, rhs)
    /\ \A b \in Values[w] : eq(w, acc, b) => hash(w, acc) = hash(w, b)

\* A zero that arithmetic or parsing produced compared equal to ZERO.
C5_Witness ==
    /\ op = "eq"
    /\ out.info = "true"
    /\ lhs = ZERO(w)
    /\ rhs = new(w, PRIM_NEG_ZERO(w)).val
    /\ hash(w, lhs) = hash(w, rhs)

\* C6: x + (-x) == ZERO and the sum stored has a positive sign bit.
C6_AddInverse ==
    (op = "add" /\ neg(w, lhs) = Value(rhs)) =>
        /\ out.tag = "Value"
        /\ eq(w, out.val, ZERO(w))
        /\ is_sign_positive(w, get(out.val))
        /\ acc = out.val

C6_Witness ==
    /\ op = "add"
    /\ lhs = MAX(w)
    /\ rhs = MIN(w)
    /\ out = Value(ZERO(w))

\* C7: when the primitive result of a + b, a - b or a * b is +inf the call
\* returns MAX, when it is -inf it returns MIN; MAX + MAX == MAX,
\* MIN + MIN == MIN, MAX - MIN == MAX and MIN - MAX == MIN.
C7_Saturation ==
    /\ (op \in {"add", "sub", "mul"} /\ prim.val = PRIM_INFINITY(w)) => out = Value(MAX(w))
    /\ (op \in {"add", "sub", "mul"} /\ prim.val = PRIM_NEG_INFINITY(w)) => out = Value(MIN(w))
    /\ (op = "add" /\ lhs = MAX(w) /\ rhs = MAX(w)) => out = Value(MAX(w))
    /\ (op = "add" /\ lhs = MIN(w) /\ rhs = MIN(w)) => out = Value(MIN(w))
    /\ (op = "sub" /\ lhs = MAX(w) /\ rhs = MIN(w)) => out = Value(MAX(w))
    /\ (op = "sub" /\ lhs = MIN(w) /\ rhs = MAX(w)) => out = Value(MIN(w))

C7_Witness ==
    /\ op = "sub"
    /\ lhs = MIN(w)
    /\ rhs = MAX(w)
    /\ prim.val = PRIM_NEG_INFINITY(w)
    /\ out = Value(MIN(w))

\* C8: a * b == ZERO iff a == ZERO or b == ZERO; a product of nonzero operands
\* that rounds to zero or to a subnormal gives MIN_POSITIVE when the signs
\* agree and MAX_NEGATIVE when they differ; a ZERO operand gives ZERO with a
\* positive sign bit.
C8_MulUnderflow ==
    op = "mul" =>
        /\ out.tag = "Value"
        /\ eq(w, out.val, ZERO(w)) <=> (eq(w, lhs, ZERO(w)) \/ eq(w, rhs, ZERO(w)))
        /\ (~IsZero(w, lhs) /\ ~IsZero(w, rhs) /\ ExpOf(w, prim.val) = 0) =>
                out.val = IF SignOf(w, lhs) = SignOf(w, rhs) THEN MIN_POSITIVE(w)
                                                             ELSE MAX_NEGATIVE(w)
        /\ (IsZero(w, lhs) \/ IsZero(w, rhs)) => out.val = Pack(w, 0, 0, 0)

\* A negative times a positive value rounded to primitive zero.
C8_Witness ==
    /\ op = "mul"
    /\ IsZero(w, prim.val)
    /\ ~IsZero(w, lhs)
    /\ SignOf(w, lhs) = 1
    /\ ~IsZero(w, rhs)
    /\ SignOf(w, rhs) = 0
    /\ out = Value(MAX_NEGATIVE(w))

\* The part of a text before its exponent marker, if it has one.
Mantissa(s) ==
    LET marks == {i \in 1..Len(s) : s[i] \in {"e", "E"}}
    IN  IF marks = {} THEN s
        ELSE SubSeq(s, 1, (CHOOSE i \in marks : \A j \in marks : i <= j) - 1)

HasNonZeroDigit(s) == \E i \in 1..Len(s) : s[i] \in Digits \ {"0"}

\* The value a text parsed to exact zero must give, from its mantissa alone.
TinyOf(t, s) ==
    IF ~HasNonZeroDigit(Mantissa(s)) THEN Pack(t, 0, 0, 0)
    ELSE IF s[1] = "-" THEN MAX_NEGATIVE(t)
    ELSE MIN_POSITIVE(t)

Str_NegZeroTinyExp == <<"-", "0", ".", "0", "e", "-", "1", "0", "0", "0", "0">>

Str_ZeroHugeExp == <<"0", ".", "0", "e", "1", "0", "0", "0", "0">>

Str_OneTinyExp == <<"1", ".", "0", "0", "e", "-", "1", "0", "0", "0", "0">>

Str_NegNineTinyExp ==
    <<"-", "0", ".", "0", "0", "0", "0", "0", "9", "0", "e", "-", "1", "0", "0", "0", "0">>

\* C9: a text the primitive parser accepts with an exact-zero result gives
\* ZERO when its mantissa has no digit 1-9, MAX_NEGATIVE when it has one and
\* the text begins with '-', MIN_POSITIVE when it has one and the text does
\* not begin with '-'; the exponent's digits have no influence.
C9_ParseSign ==
    op = "from_str" =>
        /\ (prim.ok /\ IsZero(w, prim.val)) => out = Result("Ok", TinyOf(w, text), "-")
        /\ text \in {Str_NegZeroTinyExp, Str_ZeroHugeExp} => out = Result("Ok", ZERO(w), "-")
        /\ text = Str_OneTinyExp => out = Result("Ok", MIN_POSITIVE(w), "-")
        /\ text = Str_NegNineTinyExp => out = Result("Ok", MAX_NEGATIVE(w), "-")

\* A negative text with a nonzero digit and an exponent underflowed to -0.0.
C9_Witness ==
    /\ op = "from_str"
    /\ prim = Prim(PRIM_NEG_ZERO(w))
    /\ Mantissa(text) # text
    /\ HasNonZeroDigit(Mantissa(text))
    /\ out = Result("Ok", MAX_NEGATIVE(w), "-")

Str_foo == <<"f", "o", "o">>

Str_NaN == <<"N", "a", "N">>

Str_inf == <<"i", "n", "f">>

Str_neg_inf == <<"-", "i", "n", "f">>

Str_1e1000 == <<"1", "e", "1", "0", "0", "0">>

Str_neg_1e1000 == <<"-", "1", "e", "1", "0", "0", "0">>

\* C10: from_str(s) is an error iff the primitive parser rejects s or yields
\* NaN; otherwise it is Ok of the primitive result classified: an infinity or
\* an overflow gives MAX or MIN by sign, a subnormal MIN_POSITIVE or
\* MAX_NEGATIVE by sign, a normal result itself.
C10_ParseErrors ==
    op = "from_str" =>
        /\ out.tag \in {"Ok", "Err"}
        /\ out.tag = "Err" <=> (~prim.ok \/ is_nan(w, prim.val))
        /\ out.tag = "Err" => out.info = "ParseFloatError" /\ acc = ZERO(w)
        /\ out.tag = "Ok" => acc = out.val
        /\ (prim.ok /\ prim.val = PRIM_INFINITY(w)) => out = Result("Ok", MAX(w), "-")
        /\ (prim.ok /\ prim.val = PRIM_NEG_INFINITY(w)) => out = Result("Ok", MIN(w), "-")
        /\ (prim.ok /\ IsSubnormal(w, prim.val)) =>
                out = Result("Ok", IF SignOf(w, prim.val) = 0 THEN MIN_POSITIVE(w)
                                                               ELSE MAX_NEGATIVE(w), "-")
        /\ (prim.ok /\ IsNormal(w, prim.val)) => out = Result("Ok", prim.val, "-")
        /\ text \in {Str_foo, Str_NaN} => out.tag = "Err"
        /\ text \in {Str_inf, Str_1e1000} => out = Result("Ok", MAX(w), "-")
        /\ text \in {Str_neg_inf, Str_neg_1e1000} => out = Result("Ok", MIN(w), "-")

\* A text that denotes NaN was parsed by the primitive parser and rejected.
C10_Witness ==
    /\ op = "from_str"
    /\ prim.ok
    /\ is_nan(w, prim.val)
    /\ out = Result("Err", 0, "ParseFloatError")

\* C11: negation flips the sign and never yields negative zero: for x other
\* than ZERO the value returned is the primitive negation of x, of the same
\* magnitude and the opposite sign, so -MAX == MIN, -MIN_POSITIVE ==
\* MAX_NEGATIVE and -(-x) == x; -ZERO is ZERO with a positive sign bit;
\* negating through a reference returns what negating by value returns.
C11_Negation ==
    op \in {"neg", "neg_ref"} =>
        /\ out.tag = "Value"
        /\ acc = out.val
        /\ lhs # ZERO(w) =>
                /\ get(out.val) = prim_neg(w, get(lhs))
                /\ SignOf(w, get(out.val)) = 1 - SignOf(w, get(lhs))
                /\ Units(w, get(out.val)) = 0 - Units(w, get(lhs))
                /\ ~eq(w, out.val, ZERO(w))
        /\ lhs = ZERO(w) =>
                /\ eq(w, out.val, ZERO(w))
                /\ is_sign_positive(w, get(out.val))
                /\ prim.val = PRIM_NEG_ZERO(w)
        /\ lhs = MAX(w) => out.val = MIN(w)
        /\ lhs = MIN_POSITIVE(w) => out.val = MAX_NEGATIVE(w)
        /\ neg(w, out.val) = Value(lhs)
        /\ out = neg(w, lhs)
        /\ out = neg_ref(w, lhs)

\* A nonzero value was negated through a reference: -&MIN_POSITIVE returned
\* MAX_NEGATIVE.
C11_Witness ==
    /\ op = "neg_ref"
    /\ lhs = MIN_POSITIVE(w)
    /\ prim.val = prim_neg(w, PRIM_MIN_POSITIVE(w))
    /\ out = Value(MAX_NEGATIVE(w))

\* The exact value of a + b and of a - b, in units of the smallest subnormal.
ExactSum(t, a, b) == Units(t, get(a)) + Units(t, get(b))

ExactDifference(t, a, b) == Units(t, get(a)) - Units(t, get(b))

\* The value to return for a primitive result that is a zero or a subnormal,
\* by the sign of the exact result.
TinyResult(t, exact) ==
    CASE exact = 0 -> Value(ZERO(t))
      [] exact > 0 -> Value(MIN_POSITIVE(t))
      [] exact < 0 -> Value(MAX_NEGATIVE(t))

\* C12: a + b == ZERO iff a == -b and a - b == ZERO iff a == b; the primitive
\* result of a + b or a - b is a zero only when the exact result is zero, so
\* the underflow sign "zero" is the right answer; when the exact result is not
\* zero and the primitive result is subnormal the call returns MIN_POSITIVE
\* for a positive exact result and MAX_NEGATIVE for a negative one, never
\* ZERO.
C12_ExactZero ==
    /\ op = "add" =>
            /\ out.tag = "Value"
            /\ eq(w, out.val, ZERO(w)) <=> eq(w, lhs, neg(w, rhs).val)
            /\ eq(w, out.val, ZERO(w)) <=> ExactSum(w, lhs, rhs) = 0
            /\ IsZero(w, prim.val) <=> ExactSum(w, lhs, rhs) = 0
            /\ IsZero(w, prim.val) => out = Value(ZERO(w))
            /\ IsSubnormal(w, prim.val) =>
                    /\ ExactSum(w, lhs, rhs) # 0
                    /\ out = TinyResult(w, ExactSum(w, lhs, rhs))
    /\ op = "sub" =>
            /\ out.tag = "Value"
            /\ eq(w, out.val, ZERO(w)) <=> eq(w, lhs, rhs)
            /\ eq(w, out.val, ZERO(w)) <=> ExactDifference(w, lhs, rhs) = 0
            /\ IsZero(w, prim.val) <=> ExactDifference(w, lhs, rhs) = 0
            /\ IsZero(w, prim.val) => out = Value(ZERO(w))
            /\ IsSubnormal(w, prim.val) =>
                    /\ ExactDifference(w, lhs, rhs) # 0
                    /\ out = TinyResult(w, ExactDifference(w, lhs, rhs))

\* Two different normal values were subtracted, the primitive difference was
\* a negative subnormal and MAX_NEGATIVE was returned.
C12_Witness ==
    /\ op = "sub"
    /\ ~eq(w, lhs, rhs)
    /\ IsNormal(w, get(lhs))
    /\ IsNormal(w, get(rhs))
    /\ IsSubnormal(w, prim.val)
    /\ SignOf(w, prim.val) = 1
    /\ ExactDifference(w, lhs, rhs) < 0
    /\ out = Value(MAX_NEGATIVE(w))

====
